---------------------------- MODULE Spec2Model ----------------------------
(***************************************************************************)
(* KhamarBot retrieval core: the offline index builder                     *)
(* (modules/index_builder.py, class KnowledgeEmbedder) and the online      *)
(* retriever (modules/retriever.py, class VectorRetriever).                *)
(*                                                                         *)
(* Vectors.  An embedding is [dim |-> D, v |-> <<x, y>>]: its dimension D  *)
(* and its two leading components; every further component is 0.  Dot     *)
(* products, squared L2 distances and norms are computed on v.             *)
(*                                                                         *)
(* Similarities.  A cosine similarity is kept exact, as the pair           *)
(* [dot |-> a.b, nn |-> |a|^2 * |b|^2]; a threshold is the rational        *)
(* [num |-> p, den |-> q], q > 0.                                          *)
(*                                                                         *)
(* Texts.  A text that is embedded is a sequence of tokens; a text that    *)
(* _split_text cuts is the sequence of its characters.  What as_tool       *)
(* returns is the list of its paragraphs, each a list of lines.            *)
(***************************************************************************)
EXTENDS Integers, Sequences, FiniteSets, TLC

VARIABLES
    \* ---- the environment
    creds,                 \* AZURE_EMBEDDING_KEY and AZURE_EMBEDDING_URL are set
    provDim,               \* dimension of the provider's embeddings
    limits,                \* most chunks ./pdf_file yields, most build runs
    disk,                  \* vector_store/: kb_index.faiss, kb_metadata.pkl
    \* ---- the build process (index_builder.py run as a script)
    builder,               \* the KnowledgeEmbedder and the position in the run
    \* ---- the VectorRetriever object of the serving process
    rstate,                \* "Unloaded", ..., "Ready" or "Failed"
    index,                 \* self.index
    knowledge_data,        \* self.knowledge_data
    embedding_client,      \* self._embedding_client
    embedding_deployment,  \* self._embedding_deployment
    origin,                \* the build each loaded artifact came from
    call,                  \* per calling thread: the frame of retrieve
    \* ---- the text splitter
    split                  \* the frame of a call of _split_text

vars == <<creds, provDim, limits, disk, builder, rstate, index,
          knowledge_data, origin, embedding_client, embedding_deployment,
          call, split>>

None == "None"

----------------------------------------------------------------------------
(* Bounds of the model *)

\* rows of an index the retriever is started on
MaxRows == 3
\* largest top_k a direct caller of retrieve passes
MaxTopK == 4

\* chunks of the largest corpus a build embeds (three batches)
MaxChunks == 33
\* chunks of the largest corpus where builds and loads interleave
MaxSmallCorpus == 2
\* build runs where builds and loads interleave
MaxBuilds == 2
\* chunks of the largest corpus that is built, saved, loaded and queried
MaxTripChunks == 4
\* pieces (words, spaces, sentence ends) of the longest text given to
\* _split_text
MaxPieces == 5
\* chunks after which a call of _split_text is followed no further
MaxSplitChunks == 5

(* Program constants *)

\* _get_embeddings: batch_size = 16
batch_size == 16

\* np.zeros(1536): the dimension of the substituted zero vectors
ZeroDim == 1536
\* as_tool: retrieve(query, top_k=5, ...)
ToolTopK == 5

\* dimensions an Azure OpenAI embedding deployment may have
\* (AZURE_EMBEDDING_DEPLOYMENT is read from the environment)
ProviderDims == {ZeroDim, 3072}

\* os.getenv("AZURE_EMBEDDING_DEPLOYMENT", "text-embedding-ada-002")
Deployment == "text-embedding-ada-002"

\* calling threads of the serving process (Flask serves requests in threads)
Threads == {1, 2}

----------------------------------------------------------------------------
(* Vector arithmetic *)

Dot(a, b) == a[1] * b[1] + a[2] * b[2]

\* IndexFlatL2: squared Euclidean distance
L2Sq(a, b) == (a[1] - b[1]) * (a[1] - b[1]) + (a[2] - b[2]) * (a[2] - b[2])

\* sklearn cosine_similarity: both rows are normalised first, and a row of
\* norm 0 is left as it is, so its similarity to anything is 0.
cosine_similarity(a, b) ==
    IF Dot(a, a) = 0 \/ Dot(b, b) = 0
    THEN [dot |-> 0, nn |-> 1]
    ELSE [dot |-> Dot(a, b), nn |-> Dot(a, a) * Dot(b, b)]

\* sim >= thr, for sim = dot / sqrt(nn) and thr = num / den, without roots
SimGE(sim, thr) ==
    IF thr.num <= 0
    THEN \/ sim.dot >= 0
         \/ sim.dot * sim.dot * thr.den * thr.den <= thr.num * thr.num * sim.nn
    ELSE /\ sim.dot >= 0
         /\ sim.dot * sim.dot * thr.den * thr.den >= thr.num * thr.num * sim.nn

\* the strict comparison, a slip for the one above
SimGT(sim, thr) == SimGE(sim, thr) /\ ~SimGE([dot |-> -sim.dot, nn |-> sim.nn],
                                             [num |-> -thr.num, den |-> thr.den])

\* t1 <= t2 on thresholds
ThrLE(t1, t2) == t1.num * t2.den <= t2.num * t1.den

----------------------------------------------------------------------------
(* The embedding provider *)

\* A text is a sequence of tokens (numbers).  The query texts:
Queries == {<<1>>, <<2>>}

\* the token of the file name vet1.json, and of ". "
FileToken == 7
DotToken == 0

\* the provider is a deterministic function of the text, and no embedding
\* of a text is the zero vector
EmbedHead(text) ==
    CASE text = <<1>> -> <<1, 1>>
      [] text = <<2>> -> <<2, 0>>
      [] OTHER -> CASE text[Len(text)] % 3 = 0 -> <<1, 0>>
                    [] text[Len(text)] % 3 = 1 -> <<3, 3>>
                    [] OTHER                   -> <<0, 2>>

Embed(text) == [dim |-> provDim, v |-> EmbedHead(text)]

\* leading components of the vectors an index is made of
DocHeads == {<<0, 0>>, <<1, 0>>, <<3, 3>>}

\* similarity_threshold values: 0, 0.4 (the default), 1
DefaultThr == [num |-> 2, den |-> 5]
Thresholds == {[num |-> 0, den |-> 1], DefaultThr, [num |-> 1, den |-> 1]}


----------------------------------------------------------------------------
(* The index (faiss.IndexFlatL2) and the metadata table *)

\* an index: its dimension and its rows (leading components), position 0 first
NewIndex(d, rows) == [d |-> d, rows |-> rows]

ntotal(ix) == Len(ix.rows)

\* the metadata dict process_json stores for one chunk
Metadata(header, filename, page, chunk, chunk_idx, total) ==
    [ki_topic     |-> IF header # "" THEN header ELSE filename,
     ki_text      |-> chunk,
     source_file  |-> filename,
     page         |-> page,
     chunk_index  |-> chunk_idx,
     total_chunks |-> total]

\* number of rows strictly ahead of row p in the order of search:
\* ascending squared L2 distance, equal distances by position
Rank(ix, q, p) ==
    Cardinality({p2 \in 0..(ntotal(ix) - 1) :
        \/ L2Sq(q, ix.rows[p2 + 1]) < L2Sq(q, ix.rows[p + 1])
        \/ /\ L2Sq(q, ix.rows[p2 + 1]) = L2Sq(q, ix.rows[p + 1])
           /\ p2 < p})

\* the first top_k rows whatever their distance
SearchByPosition(ix, q, k) ==
    [j \in 1..k |-> IF j <= ntotal(ix) THEN j - 1 ELSE -1]

\* index.search(query_embedding, top_k): indices[0], always top_k labels,
\* the labels past the last row being -1
Search(ix, q, k) ==
    [j \in 1..k |->
        IF j <= ntotal(ix)
        THEN CHOOSE p \in 0..(ntotal(ix) - 1) : Rank(ix, q, p) = j - 1
        ELSE -1]

\* a Python list subscript: a negative subscript counts from the end
PyIndex(seq, i) == IF i < 0 THEN seq[Len(seq) + i + 1] ELSE seq[i + 1]

\* if idx < len(self.knowledge_data), the lower test forgotten
InRangeNoLower(idx, kd) == idx < Len(kd)

\* if 0 <= idx < len(self.knowledge_data)
InRange(idx, kd) == 0 <= idx /\ idx < Len(kd)

\* if sim <= similarity_threshold, the comparison turned round
KeepBelow(sim, thr) ==
    SimGE([dot |-> -sim.dot, nn |-> sim.nn], [num |-> -thr.num, den |-> thr.den])

\* if sim > similarity_threshold
KeepStrict(sim, thr) == SimGT(sim, thr)

\* if sim >= similarity_threshold
Keep(sim, thr) == SimGE(sim, thr)

\* {**self.knowledge_data[idx], "similarity": float(sim)}
Annotate(meta, sim) ==
    [ki_topic     |-> meta.ki_topic,
     ki_text      |-> meta.ki_text,
     source_file  |-> meta.source_file,
     page         |-> meta.page,
     chunk_index  |-> meta.chunk_index,
     total_chunks |-> meta.total_chunks,
     similarity   |-> sim]

Min(a, b) == IF a <= b THEN a ELSE b

----------------------------------------------------------------------------
(* retrieve, one step per statement; t is the calling thread *)

\* the frame of a thread that is not inside retrieve.  qvec holds the query
\* embedding once there is one; hits lists the positions of the records in
\* results; last holds the call the caller completed before (none, or one);
\* tool says that as_tool made the call, and output is what as_tool returns.
IdleFrame(last) ==
    [pc |-> "idle", query |-> None, top_k |-> 0, thr |-> None,
     tool |-> FALSE, output |-> <<>>,
     client |-> None, deployment |-> None, requests |-> 0, response |-> None,
     qvec |-> <<>>, cand |-> <<>>, i |-> 0, results |-> <<>>, hits |-> <<>>,
     last |-> last]

Enter(t, q, k, thr, tool) ==
    /\ rstate = "Ready"
    /\ call[t].pc = "idle"
    /\ call' = [call EXCEPT ![t] =
          [IdleFrame(IF call[t].last # <<>> /\ call[t].last[1].query = q
                        /\ call[t].last[1].top_k = k
                     THEN call[t].last ELSE <<>>)
             EXCEPT !.pc = "get_client", !.query = q, !.top_k = k,
                    !.thr = thr, !.tool = tool]]
    /\ UNCHANGED <<split, creds, provDim, limits, disk, builder, rstate, index,
                   knowledge_data, origin, embedding_client,
                   embedding_deployment>>

\* a caller of retrieve(query, top_k, similarity_threshold)
Retrieve(t) ==
    \E q \in Queries, k \in 1..MaxTopK, thr \in Thresholds :
        Enter(t, q, k, thr, FALSE)

\* as_tool(query): docs = self.retrieve(query, top_k=5,
\* similarity_threshold=0.4)
AsTool(t) ==
    \E q \in Queries : Enter(t, q, ToolTopK, DefaultThr, TRUE)

Raise(t) == [call EXCEPT ![t].pc = "raised"]

\* _get_embedding_client: if self._embedding_client is None, and the
\* credentials test under it
GetClientCheck(t) ==
    /\ call[t].pc = "get_client"
    /\ call' = IF embedding_client # None
               THEN [call EXCEPT ![t].pc = "return_client"]
               ELSE IF creds
                    THEN [call EXCEPT ![t].pc = "create_client"]
                    ELSE Raise(t)
    /\ UNCHANGED <<split, creds, provDim, limits, disk, builder, rstate, index,
                   knowledge_data, origin, embedding_client,
                   embedding_deployment>>

\* self._embedding_client = AzureOpenAI(...)
CreateClient(t) ==
    /\ call[t].pc = "create_client"
    /\ embedding_client' = "AzureOpenAI"
    /\ call' = [call EXCEPT ![t].pc = "set_deployment"]
    /\ UNCHANGED <<split, creds, provDim, limits, disk, builder, rstate, index,
                   knowledge_data, origin, embedding_deployment>>

\* self._embedding_deployment = os.getenv(...)
SetDeployment(t) ==
    /\ call[t].pc = "set_deployment"
    /\ embedding_deployment' = Deployment
    /\ call' = [call EXCEPT ![t].pc = "return_client"]
    /\ UNCHANGED <<split, creds, provDim, limits, disk, builder, rstate, index,
                   knowledge_data, origin, embedding_client>>

\* return self._embedding_client, self._embedding_deployment
ReturnClient(t) ==
    /\ call[t].pc = "return_client"
    /\ call' = [call EXCEPT ![t].pc = "request",
                            ![t].client = embedding_client,
                            ![t].deployment = embedding_deployment]
    /\ UNCHANGED <<split, creds, provDim, limits, disk, builder, rstate, index,
                   knowledge_data, origin, embedding_client,
                   embedding_deployment>>

\* client.embeddings.create(model=deployment, input=text) answers
RequestOK(t) ==
    /\ call[t].pc = "request"
    /\ call[t].deployment # None
    /\ call' = [call EXCEPT ![t].pc = "search",
                            ![t].requests = @ + 1,
                            ![t].response = "ok",
                            ![t].qvec = <<Embed(call[t].query)>>]
    /\ UNCHANGED <<split, creds, provDim, limits, disk, builder, rstate, index,
                   knowledge_data, origin, embedding_client,
                   embedding_deployment>>

\* the failed call swallowed: an empty list is returned
RequestFailSilent(t) ==
    /\ call[t].pc = "request"
    /\ call' = [call EXCEPT ![t].pc = "returned",
                            ![t].requests = @ + 1,
                            ![t].response = "error"]
    /\ UNCHANGED <<split, creds, provDim, limits, disk, builder, rstate, index,
                   knowledge_data, origin, embedding_client,
                   embedding_deployment>>

\* client.embeddings.create raises (a provider error; always so when the
\* model sent is None): nothing catches it in _get_embedding or retrieve
RequestFail(t) ==
    /\ call[t].pc = "request"
    /\ call' = [call EXCEPT ![t].pc = "raised",
                            ![t].requests = @ + 1,
                            ![t].response = "error"]
    /\ UNCHANGED <<split, creds, provDim, limits, disk, builder, rstate, index,
                   knowledge_data, origin, embedding_client,
                   embedding_deployment>>

\* distances, indices = self.index.search(query_embedding, top_k);
\* faiss asserts that the query has the index's dimension, and an index
\* that is None (dimension 0 here) has no search to call
SearchStep(t) ==
    /\ call[t].pc = "search"
    /\ call' = IF call[t].qvec[1].dim # index.d
               THEN Raise(t)
               ELSE [call EXCEPT ![t].pc = "loop",
                                 ![t].cand = Search(index, call[t].qvec[1].v,
                                                    call[t].top_k),
                                 ![t].i = 1]
    /\ UNCHANGED <<split, creds, provDim, limits, disk, builder, rstate, index,
                   knowledge_data, origin, embedding_client,
                   embedding_deployment>>

\* one iteration of: for i, idx in enumerate(indices[0])
LoopStep(t) ==
    /\ call[t].pc = "loop"
    /\ call[t].i <= Len(call[t].cand)
    /\ LET idx == call[t].cand[call[t].i]
           sim == cosine_similarity(call[t].qvec[1].v, index.rows[idx + 1])
       IN  call' =
             IF ~InRange(idx, knowledge_data)
             THEN [call EXCEPT ![t].i = @ + 1]
             ELSE IF idx < 0 \/ idx >= ntotal(index)
                  \* self.index.reconstruct(int(idx)) raises
                  THEN Raise(t)
                  ELSE IF Keep(sim, call[t].thr)
                       THEN [call EXCEPT
                               ![t].i = @ + 1,
                               ![t].results = Append(@,
                                   Annotate(PyIndex(knowledge_data, idx), sim)),
                               ![t].hits = Append(@, idx)]
                       ELSE [call EXCEPT ![t].i = @ + 1]
    /\ UNCHANGED <<split, creds, provDim, limits, disk, builder, rstate, index,
                   knowledge_data, origin, embedding_client,
                   embedding_deployment>>

\* return results
ReturnResults(t) ==
    /\ call[t].pc = "loop"
    /\ call[t].i > Len(call[t].cand)
    /\ call' = [call EXCEPT ![t].pc = "returned"]
    /\ UNCHANGED <<split, creds, provDim, limits, disk, builder, rstate, index,
                   knowledge_data, origin, embedding_client,
                   embedding_deployment>>

\* f"{doc['similarity']:.2f}": the similarity in hundredths, to the nearest
Fmt2(sim) ==
    CHOOSE h \in -100..100 :
        /\ SimGE(sim, [num |-> 2 * h - 1, den |-> 200])
        /\ ~SimGE(sim, [num |-> 2 * h + 1, den |-> 200])

\* Python's truth value of a string kept as a string ('' is false), and of
\* a count (0 is false); a file name is kept as a token, which stands for a
\* non-empty string, and chunk_index is a number, never None
TruthyStr(x) == x # ""
TruthyInt(x) == x # 0
IsToken(x) == x \in Nat

\* the context of one document, a list of lines: the head line and Topic,
\* then Source, Page and Part where the record has them, then Content
Paragraph(i, doc) ==
    <<
      <<"Document", i, "Similarity", Fmt2(doc.similarity)>>,
      <<"Topic", doc.ki_topic>>
    >>
    \o (IF IsToken(doc.source_file)
        THEN << <<"Source", doc.source_file>> >> ELSE <<>>)
    \o (IF TruthyStr(doc.page) /\ doc.page # "" /\ doc.page # "None"
        THEN << <<"Page", doc.page>> >> ELSE <<>>)
    \o (IF IsToken(doc.chunk_index) /\ TruthyInt(doc.total_chunks)
        THEN << <<"Part", doc.chunk_index + 1, "of", doc.total_chunks>> >>
        ELSE <<>>)
    \o << <<"Content", doc.ki_text>> >>

\* a text is the list of its paragraphs, those that "\n\n" separates, and a
\* paragraph the list of its lines; the empty string has no paragraph
Sentinel == << << <<"No relevant documents found in knowledge base.">> >> >>

\* "\n\n".join(context_parts)
JoinParts(docs) == [i \in 1..Len(docs) |-> Paragraph(i, docs[i])]

\* as_tool without its test of docs: an empty list is joined all the same
FormatContextNoSentinel(t) ==
    /\ call[t].pc = "returned"
    /\ call[t].tool
    /\ call' = [call EXCEPT ![t].pc = "tool_returned",
                            ![t].output = JoinParts(call[t].results)]
    /\ UNCHANGED <<split, creds, provDim, limits, disk, builder, rstate, index,
                   knowledge_data, origin, embedding_client,
                   embedding_deployment>>

\* as_tool after retrieve has returned docs: the sentinel if not docs, else
\* the context parts joined
FormatContext(t) ==
    /\ call[t].pc = "returned"
    /\ call[t].tool
    /\ call' = [call EXCEPT ![t].pc = "tool_returned",
                            ![t].output = IF call[t].results = <<>>
                                          THEN Sentinel
                                          ELSE JoinParts(call[t].results)]
    /\ UNCHANGED <<split, creds, provDim, limits, disk, builder, rstate, index,
                   knowledge_data, origin, embedding_client,
                   embedding_deployment>>

\* the caller takes the result list, the context or the exception, and goes
\* on; an exception of retrieve passes through as_tool
Leave(t) ==
    /\ \/ call[t].pc \in {"tool_returned", "raised"}
       \/ call[t].pc = "returned" /\ ~call[t].tool
    /\ call' = [call EXCEPT ![t] =
          IdleFrame(IF call[t].pc # "raised"
                    THEN <<[query |-> call[t].query, top_k |-> call[t].top_k,
                            thr |-> call[t].thr, results |-> call[t].results]>>
                    ELSE call[t].last)]
    /\ UNCHANGED <<split, creds, provDim, limits, disk, builder, rstate, index,
                   knowledge_data, origin, embedding_client,
                   embedding_deployment>>

RetrieveStep(t) ==
    \/ GetClientCheck(t)
    \/ CreateClient(t)
    \/ SetDeployment(t)
    \/ ReturnClient(t)
    \/ RequestOK(t)
    \/ RequestFail(t)
    \/ SearchStep(t)
    \/ LoopStep(t)
    \/ ReturnResults(t)
    \/ Leave(t)

\* a step of a thread that may be inside as_tool
ToolStep(t) == RetrieveStep(t) \/ FormatContext(t)


----------------------------------------------------------------------------
(* _split_text(text, chunk_size, chunk_overlap).  A text is the sequence of *)
(* its characters; positions are Python's, from 0.                          *)

\* the characters told apart: a letter, the full stop, the Bengali full
\* stop (U+0964, written "|" here) and the space
Letter == "a"
FullStop == "."
Danda == "|"
Space == " "

Max(a, b) == IF a >= b THEN a ELSE b

\* a slice bound i of a sequence of length n, as Python adjusts it
PyBound(i, n) == IF i < 0 THEN Max(i + n, 0) ELSE Min(i, n)

\* text[a:b]
Slice(text, a, b) ==
    SubSeq(text, PyBound(a, Len(text)) + 1, PyBound(b, Len(text)))

\* text[a:]
SliceFrom(text, a) ==
    SubSeq(text, PyBound(a, Len(text)) + 1, Len(text))

\* text.rfind(sub, a, b): the highest position where sub lies inside
\* text[a:b], or -1
rfind(text, sub, a, b) ==
    LET lo == PyBound(a, Len(text))
        hi == PyBound(b, Len(text))
        at == {p \in lo..(hi - Len(sub)) :
                 SubSeq(text, p + 1, p + Len(sub)) = sub}
    IN  IF at = {} THEN -1 ELSE CHOOSE p \in at : \A p2 \in at : p2 <= p

\* str.strip(): the whitespace at both ends removed
RECURSIVE lstrip(_)
lstrip(t) == IF t # <<>> /\ Head(t) = Space THEN lstrip(Tail(t)) ELSE t

RECURSIVE rstrip(_)
rstrip(t) ==
    IF t # <<>> /\ t[Len(t)] = Space
    THEN rstrip(SubSeq(t, 1, Len(t) - 1)) ELSE t

strip(t) == rstrip(lstrip(t))

\* a window one character longer
WindowEndLong(start, chunk_size) == start + chunk_size + 1

\* end = start + chunk_size
WindowEnd(start, chunk_size) == start + chunk_size

\* split_point < start + chunk_size * 0.7
TooEarly(split_point, start, chunk_size) ==
    10 * split_point < 10 * start + 7 * chunk_size

\* the split point of the window at start: the last ". " in it, else the
\* last Bengali full stop and space, else the last space; the end of the
\* window when none is found or the one found is too early
SplitPoint(text, start, chunk_size) ==
    LET end == WindowEnd(start, chunk_size)
        s1  == rfind(text, <<FullStop, Space>>, start, end)
        s2  == IF s1 = -1 THEN rfind(text, <<Danda, Space>>, start, end)
               ELSE s1
        s3  == IF s2 = -1 THEN rfind(text, <<Space>>, start, end) ELSE s2
    IN  IF s3 = -1 \/ TooEarly(s3, start, chunk_size) THEN end ELSE s3

\* the next window starting one past the split point
NextStartGap(split_point, chunk_overlap) == split_point + 1

\* start = split_point - chunk_overlap
NextStart(split_point, chunk_overlap) == split_point - chunk_overlap

\* no call of _split_text
NoSplit ==
    [pc |-> "idle", text |-> <<>>, chunk_size |-> 0, chunk_overlap |-> 0,
     start |-> 0, chunks |-> <<>>, windows |-> <<>>]

\* _split_text called; windows lists, for each chunk, the window
\* <<start, split_point>> it was cut from
SplitCall(text, chunk_size, chunk_overlap) ==
    [NoSplit EXCEPT !.pc = "called", !.text = text,
                    !.chunk_size = chunk_size,
                    !.chunk_overlap = chunk_overlap]

\* if len(text) <= chunk_size: return [text]
ReturnWhole ==
    /\ split.pc = "called"
    /\ Len(split.text) <= split.chunk_size
    /\ split' = [split EXCEPT !.pc = "done",
                              !.chunks = <<split.text>>,
                              !.windows = <<<<0, Len(split.text)>>>>]
    /\ UNCHANGED <<creds, provDim, limits, disk, builder, rstate, index,
                   knowledge_data, origin, embedding_client,
                   embedding_deployment, call>>

\* chunks = []; start = 0
EnterLoop ==
    /\ split.pc = "called"
    /\ Len(split.text) > split.chunk_size
    /\ split' = [split EXCEPT !.pc = "loop", !.start = 0, !.chunks = <<>>]
    /\ UNCHANGED <<creds, provDim, limits, disk, builder, rstate, index,
                   knowledge_data, origin, embedding_client,
                   embedding_deployment, call>>

\* an iteration that cuts a chunk and goes on
EmitChunk ==
    /\ split.pc = "loop"
    /\ Len(split.chunks) < MaxSplitChunks
    /\ split.start < Len(split.text)
    /\ WindowEnd(split.start, split.chunk_size) < Len(split.text)
    /\ LET split_point == SplitPoint(split.text, split.start,
                                     split.chunk_size)
       IN  split' = [split EXCEPT
              !.chunks = Append(@, strip(Slice(split.text, split.start,
                                               split_point))),
              !.windows = Append(@, <<split.start, split_point>>),
              !.start = NextStart(split_point, split.chunk_overlap)]
    /\ UNCHANGED <<creds, provDim, limits, disk, builder, rstate, index,
                   knowledge_data, origin, embedding_client,
                   embedding_deployment, call>>

\* the loop ends, by the break after the last chunk (end >= len(text)) or
\* by its condition; return chunks
EmitLast ==
    /\ split.pc = "loop"
    /\ \/ ~(split.start < Len(split.text))
       \/ WindowEnd(split.start, split.chunk_size) >= Len(split.text)
    /\ split' =
          IF split.start < Len(split.text)
          THEN [split EXCEPT
                  !.pc = "done",
                  !.chunks = Append(@, SliceFrom(split.text, split.start)),
                  !.windows = Append(@, <<split.start, Len(split.text)>>)]
          ELSE [split EXCEPT !.pc = "done"]
    /\ UNCHANGED <<creds, provDim, limits, disk, builder, rstate, index,
                   knowledge_data, origin, embedding_client,
                   embedding_deployment, call>>

SplitStep == ReturnWhole \/ EnterLoop \/ EmitChunk \/ EmitLast

----------------------------------------------------------------------------
(* The build run: embedder = KnowledgeEmbedder(); embedder.process_json();  *)
(* embedder.save_to_disk()                                                  *)

\* no build process is running; build counts the runs so far
NoBuilder(build) ==
    [pc |-> "none", build |-> build, error |-> "",
     all_texts |-> <<>>, all_metadata |-> <<>>, embeddings |-> <<>>,
     i |-> 0, failed |-> {}, index |-> <<>>, knowledge_data |-> <<>>]

\* the j-th chunk ./pdf_file yields: an entry of vet1.json with no header
\* and no page, short enough to be one chunk
ChunkText(j) == <<j>>

\* the metadata table process_json makes of m chunks
MetaTable(m) ==
    [j \in 1..m |-> Metadata("", FileToken, "", ChunkText(j), 0, 1)]

\* combined_text = f"{header or filename}. {chunk}"
CombinedText(topic, chunk) == <<topic, DotToken>> \o chunk

\* process_json up to the call of _get_embeddings: the JSON files are read
\* and chunked into n chunks; with none (no JSON file, or no text) it
\* returns, and save_to_disk is called next all the same
Ingest ==
    /\ builder.pc = "none"
    /\ builder.build < limits.builds
    /\ \E n \in 0..limits.chunks :
        builder' = [NoBuilder(builder.build + 1) EXCEPT
            !.pc = IF n = 0 THEN "save" ELSE "embed",
            !.all_texts = [j \in 1..n |-> CombinedText(FileToken, ChunkText(j))],
            !.all_metadata = MetaTable(n)]
    /\ UNCHANGED <<split, creds, provDim, limits, disk, rstate, index,
                   knowledge_data, origin, embedding_client,
                   embedding_deployment, call>>

\* batch = texts[i:i+batch_size]
Batch(texts, i) ==
    SubSeq(texts, i + 1, Min(i + batch_size, Len(texts)))

\* [np.zeros(1536)], one vector whatever the batch
ZeroFillOne(batch) == <<[dim |-> ZeroDim, v |-> <<0, 0>>]>>

\* [np.zeros(1536).astype('float32')] * len(batch)
ZeroFill(batch) == [j \in 1..Len(batch) |-> [dim |-> ZeroDim, v |-> <<0, 0>>]]

\* one batch of _get_embeddings, the provider answering
EmbedBatchOK ==
    /\ builder.pc = "embed"
    /\ builder.i < Len(builder.all_texts)
    /\ LET batch == Batch(builder.all_texts, builder.i)
       IN  builder' = [builder EXCEPT
              !.embeddings = @ \o [j \in 1..Len(batch) |-> Embed(batch[j])],
              !.i = @ + batch_size]
    /\ UNCHANGED <<split, creds, provDim, limits, disk, rstate, index,
                   knowledge_data, origin, embedding_client,
                   embedding_deployment, call>>

\* one batch of _get_embeddings, the provider call raising: except Exception
EmbedBatchFail ==
    /\ builder.pc = "embed"
    /\ builder.i < Len(builder.all_texts)
    /\ builder' = [builder EXCEPT
          !.embeddings = @ \o ZeroFill(Batch(builder.all_texts, builder.i)),
          !.failed = @ \cup {builder.i},
          !.i = @ + batch_size]
    /\ UNCHANGED <<split, creds, provDim, limits, disk, rstate, index,
                   knowledge_data, origin, embedding_client,
                   embedding_deployment, call>>

\* return np.array(embeddings); dim = embeddings.shape[1]; the index is made
\* and filled, the metadata stored.  Vectors of unequal length make no
\* two-dimensional array: np.array raises, or shape[1] does.
BuildIndex ==
    /\ builder.pc = "embed"
    /\ builder.i >= Len(builder.all_texts)
    /\ LET e == builder.embeddings
       IN  builder' =
             IF \E j \in 1..Len(e) : e[j].dim # e[1].dim
             THEN [builder EXCEPT !.pc = "crashed", !.error = "ValueError"]
             ELSE [builder EXCEPT
                     !.pc = "save",
                     !.index = <<NewIndex(e[1].dim,
                                          [j \in 1..Len(e) |-> e[j].v])>>,
                     !.knowledge_data = builder.all_metadata]
    /\ UNCHANGED <<split, creds, provDim, limits, disk, rstate, index,
                   knowledge_data, origin, embedding_client,
                   embedding_deployment, call>>

\* a file being written: created or truncated, its content not yet there
PartialFile(build) == [build |-> build, complete |-> FALSE, content |-> <<>>]

WholeFile(build, content) ==
    [build |-> build, complete |-> TRUE, content |-> content]

\* what faiss.read_index gives for a file that write_index made of no
\* index: None, kept as an index of dimension 0 with no row
NullIndex == NewIndex(0, <<>>)

\* faiss.write_index(self.index, index_path) opens the file for writing.
\* With self.index None (process_json returned early) the outcome is that
\* of the faiss build: its binding passes None on as a null pointer and the
\* file is opened all the same, or the binding rejects None (TypeError)
\* before anything is opened.
WriteIndexBegin ==
    /\ builder.pc = "save"
    /\ \/ /\ builder' = [builder EXCEPT !.pc = "writing_index"]
          /\ disk' = [disk EXCEPT !.index = <<PartialFile(builder.build)>>]
       \/ /\ builder.index = <<>>
          /\ builder' = [builder EXCEPT !.pc = "crashed",
                                         !.error = "TypeError"]
          /\ disk' = disk
    /\ UNCHANGED <<split, creds, provDim, limits, rstate, index,
                   knowledge_data, origin, embedding_client,
                   embedding_deployment, call>>

\* faiss.write_index has written the index.  Of a null pointer it writes
\* the record of a missing index and returns, or (older builds) finds no
\* index type to serialize and raises, the opened file left as it is.
WriteIndexEnd ==
    /\ builder.pc = "writing_index"
    /\ IF builder.index # <<>>
       THEN /\ builder' = [builder EXCEPT !.pc = "save_meta"]
            /\ disk' = [disk EXCEPT
                  !.index = <<WholeFile(builder.build, builder.index[1])>>]
       ELSE \/ /\ builder' = [builder EXCEPT !.pc = "save_meta"]
               /\ disk' = [disk EXCEPT
                     !.index = <<WholeFile(builder.build, NullIndex)>>]
            \/ /\ builder' = [builder EXCEPT !.pc = "crashed",
                                              !.error = "RuntimeError"]
               /\ disk' = disk
    /\ UNCHANGED <<split, creds, provDim, limits, rstate, index,
                   knowledge_data, origin, embedding_client,
                   embedding_deployment, call>>

\* with open(metadata_path, "wb") as f
WriteMetaBegin ==
    /\ builder.pc = "save_meta"
    /\ builder' = [builder EXCEPT !.pc = "writing_meta"]
    /\ disk' = [disk EXCEPT !.meta = <<PartialFile(builder.build)>>]
    /\ UNCHANGED <<split, creds, provDim, limits, rstate, index,
                   knowledge_data, origin, embedding_client,
                   embedding_deployment, call>>

\* pickle.dump(self.knowledge_data, f)
WriteMetaEnd ==
    /\ builder.pc = "writing_meta"
    /\ builder' = [builder EXCEPT !.pc = "done"]
    /\ disk' = [disk EXCEPT
          !.meta = <<WholeFile(builder.build, builder.knowledge_data)>>]
    /\ UNCHANGED <<split, creds, provDim, limits, rstate, index,
                   knowledge_data, origin, embedding_client,
                   embedding_deployment, call>>

\* a write of save_to_disk fails (OSError), or the process is killed in it:
\* nothing in save_to_disk undoes what is on disk
WriteError ==
    /\ builder.pc \in {"writing_index", "save_meta", "writing_meta"}
    /\ builder' = [builder EXCEPT !.pc = "crashed", !.error = "OSError"]
    /\ UNCHANGED <<split, creds, provDim, limits, disk, rstate, index,
                   knowledge_data, origin, embedding_client,
                   embedding_deployment, call>>

\* the build process ends
ExitBuild ==
    /\ builder.pc \in {"done", "crashed"}
    /\ builder' = NoBuilder(builder.build)
    /\ UNCHANGED <<split, creds, provDim, limits, disk, rstate, index,
                   knowledge_data, origin, embedding_client,
                   embedding_deployment, call>>

BuildStep ==
    \/ Ingest
    \/ EmbedBatchOK
    \/ EmbedBatchFail
    \/ BuildIndex
    \/ WriteIndexBegin
    \/ WriteIndexEnd
    \/ WriteMetaBegin
    \/ WriteMetaEnd
    \/ WriteError
    \/ ExitBuild

----------------------------------------------------------------------------
(* VectorRetriever(index_path, metadata_path): __init__ and                 *)
(* _load_index_and_metadata, in the serving process                         *)

Fail(why) ==
    /\ rstate' = "Failed"
    /\ origin' = [origin EXCEPT !.error = why]
    /\ UNCHANGED <<index, knowledge_data>>

\* if not os.path.exists(self.index_path): raise FileNotFoundError
LoadIndexCheck ==
    /\ rstate = "Unloaded"
    /\ IF disk.index = <<>>
       THEN Fail("FileNotFoundError: index")
       ELSE /\ rstate' = "ReadingIndex"
            /\ UNCHANGED <<index, knowledge_data, origin>>
    /\ UNCHANGED <<split, creds, provDim, limits, disk, builder,
                   embedding_client, embedding_deployment, call>>

\* self.index = faiss.read_index(self.index_path); a file that is still
\* being written does not parse
LoadIndexRead ==
    /\ rstate = "ReadingIndex"
    /\ IF ~disk.index[1].complete
       THEN Fail("RuntimeError: index")
       ELSE /\ rstate' = "IndexLoaded"
            /\ index' = disk.index[1].content
            /\ origin' = [origin EXCEPT !.index = disk.index[1].build]
            /\ UNCHANGED knowledge_data
    /\ UNCHANGED <<split, creds, provDim, limits, disk, builder,
                   embedding_client, embedding_deployment, call>>

\* a missing metadata file taken for an empty table
LoadMetaCheckLenient ==
    /\ rstate = "IndexLoaded"
    /\ IF disk.meta = <<>>
       THEN /\ rstate' = "Ready"
            /\ knowledge_data' = <<>>
            /\ UNCHANGED <<index, origin>>
       ELSE /\ rstate' = "ReadingMeta"
            /\ UNCHANGED <<index, knowledge_data, origin>>
    /\ UNCHANGED <<split, creds, provDim, limits, disk, builder,
                   embedding_client, embedding_deployment, call>>

\* if not os.path.exists(self.metadata_path): raise FileNotFoundError
LoadMetaCheck ==
    /\ rstate = "IndexLoaded"
    /\ IF disk.meta = <<>>
       THEN Fail("FileNotFoundError: metadata")
       ELSE /\ rstate' = "ReadingMeta"
            /\ UNCHANGED <<index, knowledge_data, origin>>
    /\ UNCHANGED <<split, creds, provDim, limits, disk, builder,
                   embedding_client, embedding_deployment, call>>

\* self.knowledge_data = pickle.load(f); __init__ returns
LoadMetaRead ==
    /\ rstate = "ReadingMeta"
    /\ IF ~disk.meta[1].complete
       THEN Fail("EOFError: metadata")
       ELSE /\ rstate' = "Ready"
            /\ knowledge_data' = disk.meta[1].content
            /\ origin' = [origin EXCEPT !.meta = disk.meta[1].build]
            /\ UNCHANGED index
    /\ UNCHANGED <<split, creds, provDim, limits, disk, builder,
                   embedding_client, embedding_deployment, call>>

\* the serving process is started again: a new VectorRetriever, with
\* self.index = None and self.knowledge_data = None
Restart ==
    /\ rstate \in {"Failed", "Ready"}
    /\ \A t \in Threads : call[t].pc = "idle"
    /\ rstate' = "Unloaded"
    /\ index' = None
    /\ knowledge_data' = None
    /\ origin' = [index |-> 0, meta |-> 0, error |-> ""]
    /\ embedding_client' = None
    /\ embedding_deployment' = None
    /\ call' = [t \in Threads |-> IdleFrame(<<>>)]
    /\ UNCHANGED <<split, creds, provDim, limits, disk, builder>>

LoadStep ==
    \/ LoadIndexCheck
    \/ LoadIndexRead
    \/ LoadMetaCheck
    \/ LoadMetaRead
    \/ Restart

----------------------------------------------------------------------------
(* SpecRetrieve: one caller of retrieve on a Ready retriever *)

\* the indexes a retriever can have loaded, of 1..MaxRows rows.  A provider
\* of dimension ZeroDim gives any mix of embeddings and zero vectors; with
\* another provider a build completes only when no batch failed or when
\* every batch did, which leaves zero vectors of dimension ZeroDim alone.
RowSeqs(heads) == UNION {[1..n -> heads] : n \in 1..MaxRows}

LoadedIndexes(d) ==
    IF d = ZeroDim
    THEN {NewIndex(d, rows) : rows \in RowSeqs(DocHeads)}
    ELSE {NewIndex(d, rows) : rows \in RowSeqs(DocHeads \ {<<0, 0>>})}
         \cup {NewIndex(ZeroDim, rows) : rows \in RowSeqs({<<0, 0>>})}

\* the metadata table comes from the same build, or (save_to_disk writes
\* the two files one after the other) from a build one chunk shorter or
\* longer
LoadedTables(ix) ==
    {MetaTable(m) : m \in {ntotal(ix) - 1, ntotal(ix), ntotal(ix) + 1} \ {0}}

InitRetrieve ==
    /\ creds \in BOOLEAN
    /\ provDim \in ProviderDims
    /\ limits = [chunks |-> 0, builds |-> 0]
    /\ disk = [index |-> <<>>, meta |-> <<>>]
    /\ builder = NoBuilder(0)
    /\ origin = [index |-> 0, meta |-> 0, error |-> ""]
    /\ rstate = "Ready"
    /\ index \in LoadedIndexes(provDim)
    /\ knowledge_data \in LoadedTables(index)
    /\ embedding_client = None
    /\ embedding_deployment = None
    /\ call = [t \in Threads |-> IdleFrame(<<>>)]
    /\ split = NoSplit

NextRetrieve == Retrieve(1) \/ RetrieveStep(1)

SpecRetrieve == InitRetrieve /\ [][NextRetrieve]_vars

(* The agent's retrieve_node calling retriever.as_tool on a loaded store *)

NextTool == AsTool(1) \/ ToolStep(1)

SpecTool == InitRetrieve /\ [][NextTool]_vars


----------------------------------------------------------------------------
(* SpecConc: the threads of the serving process inside as_tool *)

InitConc ==
    /\ creds = TRUE
    /\ provDim = ZeroDim
    /\ limits = [chunks |-> 0, builds |-> 0]
    /\ disk = [index |-> <<>>, meta |-> <<>>]
    /\ builder = NoBuilder(0)
    /\ origin = [index |-> 0, meta |-> 0, error |-> ""]
    /\ rstate = "Ready"
    /\ index \in {NewIndex(provDim, rows) : rows \in [1..2 -> DocHeads]}
    /\ knowledge_data = MetaTable(ntotal(index))
    /\ embedding_client = None
    /\ embedding_deployment = None
    /\ call = [t \in Threads |-> IdleFrame(<<>>)]
    /\ split = NoSplit

NextConc == \E t \in Threads : AsTool(t) \/ ToolStep(t)

SpecConc == InitConc /\ [][NextConc]_vars

----------------------------------------------------------------------------
(* SpecBuild: one build run over a corpus of up to MaxChunks chunks *)

InitBuild ==
    /\ creds = TRUE
    /\ provDim \in ProviderDims
    /\ limits = [chunks |-> MaxChunks, builds |-> 1]
    /\ disk = [index |-> <<>>, meta |-> <<>>]
    /\ builder = NoBuilder(0)
    /\ origin = [index |-> 0, meta |-> 0, error |-> ""]
    /\ rstate = "Unloaded"
    /\ index = None
    /\ knowledge_data = None
    /\ embedding_client = None
    /\ embedding_deployment = None
    /\ call = [t \in Threads |-> IdleFrame(<<>>)]
    /\ split = NoSplit

NextBuild == BuildStep

SpecBuild == InitBuild /\ [][NextBuild]_vars

----------------------------------------------------------------------------
(* SpecPersist: build runs over small corpora, one after the other, while   *)
(* the serving process constructs its VectorRetriever and serves as_tool    *)

InitPersist ==
    /\ creds = TRUE
    /\ provDim \in ProviderDims
    /\ limits = [chunks |-> MaxSmallCorpus, builds |-> MaxBuilds]
    /\ disk = [index |-> <<>>, meta |-> <<>>]
    /\ builder = NoBuilder(0)
    /\ origin = [index |-> 0, meta |-> 0, error |-> ""]
    /\ rstate = "Unloaded"
    /\ index = None
    /\ knowledge_data = None
    /\ embedding_client = None
    /\ embedding_deployment = None
    /\ call = [t \in Threads |-> IdleFrame(<<>>)]
    /\ split = NoSplit

NextPersist == BuildStep \/ LoadStep \/ AsTool(1) \/ ToolStep(1)

SpecPersist == InitPersist /\ [][NextPersist]_vars

----------------------------------------------------------------------------
(* SpecRoundTrip: one build run with a provider that answers every call,   *)
(* its save, the construction of a VectorRetriever and calls of retrieve    *)
(* with the texts of the chunks                                             *)

\* a caller of retrieve whose query is the text of a chunk of the loaded
\* table: the chunk's own text (ki_text), or the text process_json embedded
\* for it (combined_text)
RetrieveChunk(t) ==
    \E j \in 1..Len(knowledge_data), k \in 1..MaxTopK, thr \in Thresholds,
       own \in BOOLEAN :
        Enter(t,
              IF own THEN knowledge_data[j].ki_text
              ELSE CombinedText(knowledge_data[j].ki_topic,
                                knowledge_data[j].ki_text),
              k, thr, FALSE)

\* a step of retrieve with a provider that answers every call
RetrieveStepOK(t) ==
    \/ GetClientCheck(t)
    \/ CreateClient(t)
    \/ SetDeployment(t)
    \/ ReturnClient(t)
    \/ RequestOK(t)
    \/ SearchStep(t)
    \/ LoopStep(t)
    \/ ReturnResults(t)
    \/ Leave(t)

InitRoundTrip ==
    /\ creds = TRUE
    /\ provDim \in ProviderDims
    /\ limits = [chunks |-> MaxTripChunks, builds |-> 1]
    /\ disk = [index |-> <<>>, meta |-> <<>>]
    /\ builder = NoBuilder(0)
    /\ origin = [index |-> 0, meta |-> 0, error |-> ""]
    /\ rstate = "Unloaded"
    /\ index = None
    /\ knowledge_data = None
    /\ embedding_client = None
    /\ embedding_deployment = None
    /\ call = [t \in Threads |-> IdleFrame(<<>>)]
    /\ split = NoSplit

\* the build run, no provider call and no write failing
BuildStepOK ==
    \/ Ingest
    \/ EmbedBatchOK
    \/ BuildIndex
    \/ WriteIndexBegin
    \/ WriteIndexEnd
    \/ WriteMetaBegin
    \/ WriteMetaEnd
    \/ ExitBuild

NextRoundTrip ==
    BuildStepOK \/ LoadStep \/ RetrieveChunk(1) \/ RetrieveStepOK(1)

SpecRoundTrip == InitRoundTrip /\ [][NextRoundTrip]_vars

----------------------------------------------------------------------------
(* SpecSplit: _split_text called on a text, with a chunk size and an        *)
(* overlap                                                                  *)

\* what a text is put together of: a short and a longer word, a space and
\* a run of spaces, the end of a sentence in either script
Pieces ==
    {<<Letter>>, <<Letter, Letter, Letter>>, <<Space>>,
     <<Space, Space, Space>>, <<FullStop, Space>>, <<Danda, Space>>}

RECURSIVE Concat(_)
Concat(ps) == IF ps = <<>> THEN <<>> ELSE Head(ps) \o Concat(Tail(ps))

\* the texts of at most MaxPieces pieces, the empty text among them
Texts == {Concat(ps) : ps \in UNION {[1..n -> Pieces] : n \in 0..MaxPieces}}

\* <<chunk_size, chunk_overlap>>: an overlap that is a small part of the
\* chunk size, as with the defaults 800 and 100, and one close to it
SplitParams == {<<7, 1>>, <<7, 6>>}

InitSplit ==
    /\ creds = TRUE
    /\ provDim = ZeroDim
    /\ limits = [chunks |-> 0, builds |-> 0]
    /\ disk = [index |-> <<>>, meta |-> <<>>]
    /\ builder = NoBuilder(0)
    /\ origin = [index |-> 0, meta |-> 0, error |-> ""]
    /\ rstate = "Unloaded"
    /\ index = None
    /\ knowledge_data = None
    /\ embedding_client = None
    /\ embedding_deployment = None
    /\ call = [t \in Threads |-> IdleFrame(<<>>)]
    /\ \E text \in Texts, pr \in SplitParams :
          split = SplitCall(text, pr[1], pr[2])

NextSplit == SplitStep

SpecSplit == InitSplit /\ [][NextSplit]_vars

----------------------------------------------------------------------------
(* Properties of retrieve *)

\* the records retrieve is to return: the candidates of the search, in the
\* order of the search, whose position is within the metadata table and
\* whose cosine similarity to the query is at least thr
ExpectedResults(ix, kd, q, k, thr) ==
    LET c == Search(ix, q, k)
        RECURSIVE From(_)
        From(j) ==
            IF j > k THEN <<>>
            ELSE IF /\ c[j] >= 0
                    /\ c[j] < Len(kd)
                    /\ SimGE(cosine_similarity(q, ix.rows[c[j] + 1]), thr)
                 THEN <<Annotate(kd[c[j] + 1],
                                 cosine_similarity(q, ix.rows[c[j] + 1]))>>
                      \o From(j + 1)
                 ELSE From(j + 1)
    IN From(1)

\* a is b with some elements left out
RECURSIVE IsSubSeq(_, _)
IsSubSeq(a, b) ==
    IF a = <<>> THEN TRUE
    ELSE IF b = <<>> THEN FALSE
    ELSE IF Head(a) = Head(b) THEN IsSubSeq(Tail(a), Tail(b))
    ELSE IsSubSeq(a, Tail(b))

Returned(t) == call[t].pc = "returned"

\* C1: a retrieve that returns, returns exactly the candidates of the
\* index's top_k search whose position lies within the metadata table and
\* whose cosine similarity to the query is >= the threshold, in the order of
\* the search, each the stored metadata record plus its similarity.
C1_RetrieveIsFilteredSearch ==
    \A t \in Threads :
        Returned(t) =>
            call[t].results =
                ExpectedResults(index, knowledge_data, call[t].qvec[1].v,
                                call[t].top_k, call[t].thr)

\* a return of two records of which the second is the more similar, with
\* a candidate of the search filtered out
C1_Witness ==
    \E t \in Threads :
        /\ Returned(t)
        /\ Len(call[t].results) = 2
        /\ ~SimGE(call[t].results[1].similarity, [num |-> 1, den |-> 1])
        /\ SimGE(call[t].results[2].similarity, [num |-> 1, den |-> 1])
        /\ Min(call[t].top_k, ntotal(index)) = 3
        /\ Len(knowledge_data) = ntotal(index)

\* C6: when the embedding call of retrieve fails, retrieve raises to its
\* caller: no list is returned, no vector stands in for the query, the call
\* is made once, and the loaded index and metadata table are as before.
C6_ProviderErrorPropagates ==
    [][\A t \in Threads :
          (call[t].pc = "request" /\ call'[t].response = "error") =>
              /\ call'[t].pc = "raised"
              /\ call'[t].requests = 1
              /\ call'[t].qvec = <<>>
              /\ call'[t].results = <<>>
              /\ rstate' = "Ready"
              /\ index' = index
              /\ knowledge_data' = knowledge_data]_vars

\* a retrieve that raised on a provider error, after an earlier retrieve of
\* the same query returned records
C6_Witness ==
    \E t \in Threads :
        /\ call[t].pc = "raised"
        /\ call[t].response = "error"
        /\ call[t].deployment = Deployment
        /\ call[t].last # <<>>
        /\ call[t].last[1].results # <<>>

\* C9: retrieve returns at most min(top_k, N) records, each the metadata of
\* a distinct existing row; a position that is negative or >= len(metadata)
\* yields no record and does not raise.
C9_NoFabricatedRecords ==
    \A t \in Threads :
        /\ call[t].pc \in {"loop", "returned"} =>
             /\ Len(call[t].results) <= Min(call[t].top_k, ntotal(index))
             /\ Len(call[t].hits) = Len(call[t].results)
             /\ \A j \in 1..Len(call[t].hits) :
                  /\ call[t].hits[j] \in 0..(ntotal(index) - 1)
                  /\ call[t].hits[j] < Len(knowledge_data)
                  /\ call[t].results[j] =
                        Annotate(knowledge_data[call[t].hits[j] + 1],
                                 call[t].results[j].similarity)
                  /\ \A j2 \in 1..Len(call[t].hits) :
                        j2 # j => call[t].hits[j2] # call[t].hits[j]
        \* nothing raises once the loop over the candidates has begun
        /\ call[t].pc = "raised" => call[t].i = 0

\* a return where the search padded its answer with -1 (top_k > N) and gave
\* a position past the end of a shorter metadata table
C9_Witness ==
    \E t \in Threads :
        /\ Returned(t)
        /\ call[t].top_k > ntotal(index)
        /\ Len(knowledge_data) < ntotal(index)
        /\ \E j \in 1..Len(call[t].cand) : call[t].cand[j] = -1
        /\ \E j \in 1..Len(call[t].cand) : call[t].cand[j] >= Len(knowledge_data)
        /\ call[t].results # <<>>

\* C10: for one index, query and top_k, the result list at the higher of two
\* thresholds is a sub-list of the result list at the lower, so it is never
\* longer.
C10_ThresholdMonotone ==
    \A t \in Threads :
        (Returned(t) /\ call[t].last # <<>>) =>
            LET prev == call[t].last[1]
            IN  /\ ThrLE(prev.thr, call[t].thr) =>
                     /\ IsSubSeq(call[t].results, prev.results)
                     /\ Len(call[t].results) <= Len(prev.results)
                /\ ThrLE(call[t].thr, prev.thr) =>
                     /\ IsSubSeq(prev.results, call[t].results)
                     /\ Len(prev.results) <= Len(call[t].results)

\* two returns for one query and top_k, the second at a higher threshold and
\* with fewer records, though not with none
C10_Witness ==
    \E t \in Threads :
        /\ Returned(t)
        /\ call[t].last # <<>>
        /\ ~ThrLE(call[t].thr, call[t].last[1].thr)
        /\ Len(call[t].results) < Len(call[t].last[1].results)
        /\ call[t].results # <<>>

\* C7: under every interleaving of concurrent retrieve calls, each call
\* sends its embedding request with an initialised client and the
\* configured deployment identifier, and a call that returns, returns what a
\* call run alone returns.
C7_ConcurrentCallsAsAlone ==
    \A t \in Threads :
        /\ call[t].pc = "request" =>
             /\ call[t].client # None
             /\ call[t].deployment = Deployment
        /\ Returned(t) =>
             call[t].results =
                 ExpectedResults(index, knowledge_data, call[t].qvec[1].v,
                                 call[t].top_k, call[t].thr)


----------------------------------------------------------------------------
(* Properties of the build run, of the two files and of the load *)

ZeroRow == <<0, 0>>

\* the start of the batch the j-th text (j from 1) is embedded in
BatchOf(j) == ((j - 1) \div batch_size) * batch_size

\* C2: once process_json has built an index, the index has as many rows as
\* there are metadata records, for every corpus size and whichever batches
\* failed; the rows of the texts of a failed batch, and no others, are zero
\* vectors.
C2_RowCountInvariant ==
    builder.index # <<>> =>
        /\ ntotal(builder.index[1]) = Len(builder.knowledge_data)
        /\ Len(builder.knowledge_data) = Len(builder.all_texts)
        /\ \A j \in 1..Len(builder.all_texts) :
              IF BatchOf(j) \in builder.failed
              THEN builder.index[1].rows[j] = ZeroRow
              ELSE builder.index[1].rows[j] = EmbedHead(builder.all_texts[j])

\* an index built of two batches, the first answered, the second (of one
\* text) failed
C2_Witness ==
    /\ builder.index # <<>>
    /\ Len(builder.all_texts) = batch_size + 1
    /\ builder.failed = {batch_size}
    /\ builder.index[1].rows[batch_size + 1] = ZeroRow
    /\ builder.index[1].rows[batch_size] # ZeroRow

\* C8: every vector a build collects has the provider's dimension D, the
\* zero vectors of a failed batch included, whichever batches fail, and the
\* build completes with an index of dimension D.
C8_UniformDimension ==
    /\ \A j \in 1..Len(builder.embeddings) :
          builder.embeddings[j].dim = provDim
    /\ builder.index # <<>> => builder.index[1].d = provDim
    /\ builder.error # "ValueError"

\* C3: the index file and the metadata file that are on disk come from one
\* build and have equal row counts, at every moment, and so does the pair a
\* VectorRetriever has loaded.
C3_ArtifactsFromOneBuild ==
    /\ (disk.index # <<>> /\ disk.meta # <<>>) =>
          /\ disk.index[1].build = disk.meta[1].build
          /\ disk.index[1].complete /\ disk.meta[1].complete =>
                ntotal(disk.index[1].content) = Len(disk.meta[1].content)
    /\ rstate = "Ready" =>
          /\ origin.index = origin.meta
          /\ ntotal(index) = Len(knowledge_data)

\* C4: a VectorRetriever whose construction returned holds an index with as
\* many rows as its metadata table.
C4_ReadyImpliesEqualRows ==
    rstate = "Ready" => ntotal(index) = Len(knowledge_data)

\* C5: construction raises when the index file is absent and when the
\* metadata file is absent; a retriever is Ready, and retrieve runs, only
\* with both artifacts loaded.
C5_MissingArtifactRaises ==
    /\ [](rstate = "Ready" => origin.index # 0 /\ origin.meta # 0)
    /\ [](\A t \in Threads : call[t].pc # "idle" => rstate = "Ready")
    /\ [][/\ (rstate = "Unloaded" /\ disk.index = <<>> /\ rstate' # rstate)
               => rstate' = "Failed"
          /\ (rstate = "IndexLoaded" /\ disk.meta = <<>> /\ rstate' # rstate)
               => (rstate' = "Failed" /\ origin'.meta = 0)]_vars

\* construction failed on the missing metadata file, the index loaded
C5_Witness ==
    /\ rstate = "Failed"
    /\ origin.error = "FileNotFoundError: metadata"
    /\ origin.index # 0
    /\ origin.meta = 0

----------------------------------------------------------------------------
(* Properties of as_tool *)

ToolReturned(t) == call[t].pc = "tool_returned"

\* C11: when as_tool returns, its docs are what retrieve gives for top_k=5
\* and similarity_threshold=0.4; the text returned is the sentinel exactly
\* when docs is empty and is never the empty string; otherwise it has one
\* paragraph per record of docs, the i-th numbered i and carrying the text
\* and the topic of the i-th record.  Nothing raises between retrieve's
\* return and as_tool's: the only step from "returned" is to "tool_returned".
C11_SentinelIffNoDocs ==
    \A t \in Threads :
        /\ ToolReturned(t) =>
              LET docs == call[t].results
                  out  == call[t].output
              IN  /\ docs = ExpectedResults(index, knowledge_data,
                                            call[t].qvec[1].v, ToolTopK,
                                            DefaultThr)
                  /\ (out = Sentinel) <=> (docs = <<>>)
                  /\ out # <<>>
                  /\ docs # <<>> =>
                        /\ Len(out) = Len(docs)
                        /\ \A i \in 1..Len(docs) :
                              /\ out[i][1][2] = i
                              /\ out[i][2] = <<"Topic", docs[i].ki_topic>>
                              /\ out[i][Len(out[i])]
                                    = <<"Content", docs[i].ki_text>>
        /\ (call[t].tool /\ call[t].pc = "returned") => ENABLED FormatContext(t)

\* as_tool has returned the sentinel in one run and a context of two
\* paragraphs in another
C11_Witness ==
    /\ ToolReturned(1)
    /\ Len(call[1].results) = 2
    /\ call[1].output # Sentinel

C11_WitnessSentinel ==
    /\ ToolReturned(1)
    /\ call[1].results = <<>>
    /\ call[1].output = Sentinel

----------------------------------------------------------------------------
(* Properties of the build run on an empty corpus *)

\* the build run that is under way has ingested no chunk
EmptyRun == builder.pc # "none" /\ builder.all_texts = <<>>

\* C13: a build run that ingested no chunk creates and overwrites no file
\* (no step of it changes the disk) and does not end normally: it ends in
\* an error.
C13_EmptyCorpusPersistsNothing ==
    [][EmptyRun => (disk' = disk /\ builder'.pc # "done")]_vars

\* an empty run has ended normally over the artifacts of the build before
C13_EmptyRunOverwrites ==
    /\ EmptyRun
    /\ builder.pc = "done"
    /\ builder.build = 2
    /\ disk.index = <<WholeFile(2, NullIndex)>>
    /\ disk.meta = <<WholeFile(2, <<>>)>>

----------------------------------------------------------------------------
(* Properties of the round trip build, save, load, retrieve *)

\* the positions (from 1) of the rows of the loaded index equal to vector v
RowsEqualTo(v) == {m \in 1..ntotal(index) : index.rows[m] = v}

\* C12 as stated: retrieve called with the own text of the j-th chunk of
\* the loaded store returns that chunk, with a similarity >= the threshold.
C12_OwnTextRoundTrip ==
    \A t \in Threads :
        Returned(t) =>
            \A j \in 1..Len(knowledge_data) :
                call[t].query = knowledge_data[j].ki_text =>
                    \E i \in 1..Len(call[t].results) :
                        /\ call[t].hits[i] = j - 1
                        /\ SimGE(call[t].results[i].similarity, call[t].thr)

\* C12 amended: retrieve called with the text that was embedded for the
\* j-th chunk (its combined text) and a threshold below 1 returns at least
\* one chunk whose row equals the query's embedding, every such chunk it
\* returns having similarity 1; it returns the j-th chunk itself when top_k
\* is at least the number of rows equal to that embedding.
C12_CombinedTextRoundTrip ==
    \A t \in Threads :
        Returned(t) =>
            \A j \in 1..Len(knowledge_data) :
                (/\ call[t].query = CombinedText(knowledge_data[j].ki_topic,
                                                 knowledge_data[j].ki_text)
                 /\ ~ThrLE([num |-> 1, den |-> 1], call[t].thr)) =>
                    LET q   == call[t].qvec[1].v
                        res == call[t].results
                    IN  /\ index.rows[j] = q
                        /\ \E i \in 1..Len(res) :
                              call[t].hits[i] + 1 \in RowsEqualTo(q)
                        /\ \A i \in 1..Len(res) :
                              call[t].hits[i] + 1 \in RowsEqualTo(q) =>
                                /\ SimGE(res[i].similarity,
                                         [num |-> 1, den |-> 1])
                                /\ SimGE(res[i].similarity, call[t].thr)
                        /\ call[t].top_k >= Cardinality(RowsEqualTo(q)) =>
                              \E i \in 1..Len(res) : call[t].hits[i] = j - 1

\* the fourth chunk, whose embedding the first chunk shares, found by its
\* combined text with top_k = 2 and the default threshold
C12_Witness ==
    /\ Returned(1)
    /\ Len(knowledge_data) = 4
    /\ call[1].query = CombinedText(knowledge_data[4].ki_topic,
                                    knowledge_data[4].ki_text)
    /\ call[1].top_k = 2
    /\ call[1].thr = DefaultThr
    /\ call[1].hits = <<0, 3>>

----------------------------------------------------------------------------
(* Properties of _split_text *)

SplitDone == split.pc = "done"

\* C14: every chunk _split_text has put in its list, the final one
\* included, has at most chunk_size characters.
C14_ChunkWithinSize ==
    split.pc \in {"loop", "done"} =>
        \A i \in 1..Len(split.chunks) :
            Len(split.chunks[i]) <= split.chunk_size

\* three chunks returned, one of them of chunk_size characters
C14_Witness ==
    /\ SplitDone
    /\ Len(split.chunks) = 3
    /\ \E i \in 1..3 : Len(split.chunks[i]) = split.chunk_size

\* position p of the text lies in the window w = <<start, split_point>>
InWindow(p, w) == PyBound(w[1], Len(split.text)) <= p /\ p < w[2]

\* C15: the windows the chunks were cut from cover the text: the first
\* starts at 0; each next one starts at most chunk_overlap before, and never
\* after, the split point of the one before it; every chunk but the last is
\* its window stripped; on return the last chunk is the text from its
\* window's start to the end, and every position of the text lies in a
\* window.
C15_WindowsCoverText ==
    split.pc \in {"loop", "done"} =>
        LET w == split.windows
            n == Len(w)
        IN  /\ Len(split.chunks) = n
            /\ n > 0 => w[1][1] = 0
            /\ \A i \in 2..n :
                  /\ w[i][1] <= w[i - 1][2]
                  /\ w[i][1] >= w[i - 1][2] - split.chunk_overlap
            /\ (split.pc = "loop" /\ n > 0) =>
                  /\ split.start <= w[n][2]
                  /\ split.start >= w[n][2] - split.chunk_overlap
            /\ \A i \in 1..(n - 1) :
                  split.chunks[i] = strip(Slice(split.text, w[i][1], w[i][2]))
            /\ SplitDone =>
                  /\ n > 0
                  /\ w[n][2] = Len(split.text)
                  /\ split.chunks[n] = SliceFrom(split.text, w[n][1])
                  /\ \A p \in 0..(Len(split.text) - 1) :
                        \E j \in 1..n : InWindow(p, w[j])

\* a text returned in three chunks, the second window starting chunk_overlap
\* before a split point that is not the end of the first window
C15_Witness ==
    /\ SplitDone
    /\ Len(split.windows) = 3
    /\ split.chunk_overlap = 1
    /\ split.windows[1][2] < split.chunk_size
    /\ split.windows[2][1] = split.windows[1][2] - 1

\* C16: no chunk _split_text has put in its list is the empty string.
C16_NoEmptyChunk ==
    split.pc \in {"loop", "done"} =>
        \A i \in 1..Len(split.chunks) : split.chunks[i] # <<>>

\* a sentence terminator and its space lie at position p, inside the
\* window that ends at end
TerminatorAt(p, end) ==
    /\ p + 2 <= end
    /\ p + 2 <= Len(split.text)
    /\ split.text[p + 1] \in {FullStop, Danda}
    /\ split.text[p + 2] = Space

SpaceAt(p) == split.text[p + 1] = Space

\* the positions of the last 30% of the window from start where a boundary
\* lies
LateBoundaries(start) ==
    LET end == start + split.chunk_size
    IN  {p \in Max(start, 0)..(end - 1) :
            /\ 10 * p >= 10 * start + 7 * split.chunk_size
            /\ TerminatorAt(p, end) \/ SpaceAt(p)}

\* C17: in every window but the last, the cut is the hard cut at
\* start + chunk_size only when no boundary lies in the last 30% of the
\* window; when one lies there the cut is on a boundary, and on a sentence
\* terminator when a terminator lies there.
C17_HardCutOnlyWithoutBoundary ==
    split.pc \in {"loop", "done"} =>
        \A i \in 1..Len(split.windows) :
            LET start == split.windows[i][1]
                cut   == split.windows[i][2]
                end   == start + split.chunk_size
                late  == LateBoundaries(start)
            IN  (end < Len(split.text) /\ start >= 0) =>
                  /\ cut = end => late = {}
                  /\ late # {} => cut \in late
                  /\ (\E p \in late : TerminatorAt(p, end)) =>
                        TerminatorAt(cut, end)

\* C18: every iteration that is not the last moves the window start
\* forward, and never below 0.
C18_StartIncreases ==
    [][(split.pc = "loop" /\ split'.pc = "loop" /\ split' # split) =>
           (split'.start > split.start /\ split'.start >= 0)]_vars

============================================================================
